---- MODULE Spec2Model ----
(***************************************************************************)
(* WatchnLearn: the expiring key-value cache and the download manifest     *)
(* (src/unnamed/part_003), as a state machine over the device's            *)
(* AsyncStorage, its downloads directory and the clock.                    *)
(*                                                                         *)
(* Every handler is one action.  Each I/O call of a handler (an            *)
(* AsyncStorage or FileSystem promise) may reject; the set `faults` names  *)
(* the I/O step of the call that rejects.  JavaScript strings are TLA+     *)
(* strings; every other JavaScript value is a tagged record.  Calls that   *)
(* overlap are modelled a second time, await by await (Start and Step).    *)
(*                                                                         *)
(* The auth provider (src/contexts/AuthContext.tsx) and the screens that   *)
(* talk to the backend (Explore, Quiz, Topic, Subject chapters, enrolled   *)
(* subjects) follow, each as a record of its React state and of its calls  *)
(* in flight, each with a specification of its own.                        *)
(***************************************************************************)
EXTENDS Integers, Sequences, FiniteSets, Bags, TLC

VARIABLES
    storage,    \* AsyncStorage: storage key -> stored string, or NoItem
    dirExists,  \* the downloads directory exists
    files,      \* downloads directory: file uri -> content (the url fetched), or NoFile
    now,        \* Date.now()
    last,       \* the most recent call: its arguments, its result, whether an I/O step failed
    fresh,      \* cache key -> the last set of the key that hit storage, unless written since
    gone,       \* cache key -> why the key's entry is expected to be absent, if it is
    dl,         \* download id -> what the last download / deleteDownload of the id came to
    downloads,  \* DownloadsScreen's state `downloads`: the file uris it lists
    calls,      \* slot -> an asynchronous call and the await it is suspended at
    authSession,    \* supabase.auth: the client's session, or null
    auth,           \* AuthProvider: user, student, loading, and its promises in flight
    explore,        \* ExploreScreen: enrollingId, enrolledIds, the handleEnroll calls in flight
    quiz,           \* QuizScreen: questions, currentIndex, answers, loading, submitting
    topicScreen,    \* TopicScreen: topic, completed, loading, hasMarkedComplete
    chaptersScreen, \* SubjectChaptersScreen: terms, selectedTermId, chapters, loading
    home,           \* the enrolled-subjects screen: the progress it computed
    db              \* the backend tables the screens write

\* The cache, the manifest and the Downloads screen.
lib == <<storage, dirExists, files, now, last, fresh, gone, dl, downloads, calls>>

\* The auth provider, the screens on the backend, and the backend.
app == <<authSession, auth, explore, quiz, topicScreen, chaptersScreen, home, db>>

vars == <<storage, dirExists, files, now, last, fresh, gone, dl, downloads, calls,
          authSession, auth, explore, quiz, topicScreen, chaptersScreen, home, db>>

(***************************************************************************)
(* Bounds of the model.                                                    *)
(***************************************************************************)
MaxClock == 1    \* the clock shows 0..MaxClock and CACHE_EXPIRY..CACHE_EXPIRY + MaxClock
MaxLoads == 2    \* loadStudentProfile calls of one user in flight at a time
MaxEnrolls == 3  \* handleEnroll calls in flight at a time
MaxRows == 1     \* no insert is started once its table holds more rows
MaxQuestions == 3    \* questions of a quiz
MaxUpserts == 2  \* no video message is handled once the screen has issued so many upserts

Keys == {"topics_abc", "terms_s1"}     \* cache keys the callers use
Ids == {"t1", "p1"}                    \* ids of downloadable items
Types == {"video", "pdf"}

\* What the screens ask downloads.download for: a topic as a video, the same
\* topic as a PDF from another url and under another name, and a past paper.
Catalog ==
    { [id |-> "t1", name |-> "Intro", url |-> "https://cdn/a", type |-> "video"],
      [id |-> "t1", name |-> "Intro notes", url |-> "https://cdn/c", type |-> "pdf"],
      [id |-> "p1", name |-> "Paper", url |-> "https://cdn/d", type |-> "pdf"] }

(***************************************************************************)
(* JavaScript values.                                                      *)
(***************************************************************************)
Undefined == [t |-> "undefined"]
JNull == [t |-> "null"]
NaN == [t |-> "nan"]
JBool(b) == [t |-> "bool", b |-> b]
JNum(n) == [t |-> "num", n |-> n]
JStr(s) == [t |-> "str", s |-> s]
JArr(a) == [t |-> "arr", a |-> a]
JObj(o) == [t |-> "obj", o |-> o]

\* The outcome of a call whose promise rejects.
Threw == [t |-> "throws"]

\* obj.f, for obj other than null and undefined
Prop(obj, f) == IF obj.t = "obj" /\ f \in DOMAIN obj.o THEN obj.o[f] ELSE Undefined

\* The data the callers hand to cache.set.
Values == {JNull, JArr(<<JObj([id |-> JStr("t1")])>>), Undefined, NaN}

\* The value JSON.parse reads back from what JSON.stringify writes: NaN becomes
\* null, an undefined property is dropped, an undefined array element becomes null.
Scalar(v) == v.t \in {"null", "bool", "num", "str"}

RECURSIVE ToJSON(_)
ToJSON(v) ==
    CASE v.t = "nan" -> JNull
      [] v.t = "arr" ->
            IF \A i \in DOMAIN v.a : Scalar(v.a[i]) THEN v
            ELSE JArr([i \in DOMAIN v.a |->
                        IF v.a[i].t = "undefined" THEN JNull ELSE ToJSON(v.a[i])])
      [] v.t = "obj" ->
            IF \A g \in DOMAIN v.o : Scalar(v.o[g]) THEN v
            ELSE JObj([f \in {g \in DOMAIN v.o : v.o[g].t # "undefined"} |->
                        ToJSON(v.o[f])])
      [] OTHER -> v

\* A JSON text is kept as the value it denotes; a string that is not a JSON
\* text is kept as it is, and JSON.parse throws a SyntaxError on it.
JSONstringify(v) == [text |-> ToJSON(v)]
Parses(s) == "text" \in DOMAIN s
JSONparse(s) == s.text

\* Strings found under a cache key that cache.set did not write: not a JSON
\* text, the JSON text null, an object without a timestamp.
Malformed ==
    { [raw |-> "{oops"],
      [text |-> JNull],
      [text |-> JObj([data |-> JArr(<<JObj([id |-> JStr("t1")])>>)])] }

(***************************************************************************)
(* Program constants.                                                      *)
(***************************************************************************)
CACHE_PREFIX == "@watchnlearn_cache_"
CACHE_EXPIRY == 24 * 60 * 60 * 1000
documentDirectory == "file:///data/"
DOWNLOADS_DIR == documentDirectory \o "downloads/"
DOWNLOADS_KEY == "@watchnlearn_downloads"

(***************************************************************************)
(* AsyncStorage.                                                           *)
(***************************************************************************)
NoItem == JNull

CacheKey(key) == CACHE_PREFIX \o key

StorageKeys == {CacheKey(k) : k \in Keys} \cup {DOWNLOADS_KEY}

getItem(st, k) == st[k]
setItem(st, k, s) == [st EXCEPT ![k] = s]
removeItem(st, k) == [k2 \in DOMAIN st |-> IF k2 = k THEN NoItem ELSE st[k2]]
getAllKeys(st) == {k \in DOMAIN st : st[k] # NoItem}
multiRemove(st, ks) == [k \in DOMAIN st |-> IF k \in ks THEN NoItem ELSE st[k]]

startsWith(s, p) == Len(s) >= Len(p) /\ SubSeq(s, 1, Len(p)) = p

\* The I/O steps of one call that reject: none, or one of them.  (A second
\* rejection in the same call leaves the storage and the files one of the single
\* rejections leaves: a handler either stops at the first one, or swallows it
\* and carries on to steps whose own rejection undoes nothing.)
FaultSets(steps) == {{}} \cup {{s} : s \in steps}

(***************************************************************************)
(* cache                                                                   *)
(***************************************************************************)
None == [t |-> "none"]

\* cache.set: the storage it leaves.
set_keepsTimestamp(key, data, faults) ==
    LET cached == getItem(storage, CacheKey(key))
        stamp == IF cached # NoItem /\ Parses(cached) /\ JSONparse(cached).t = "obj"
                    /\ Prop(JSONparse(cached), "timestamp").t = "num"
                 THEN Prop(JSONparse(cached), "timestamp") ELSE JNum(now)
        cacheItem == JObj([data |-> data, timestamp |-> stamp])
    IN  IF "setItem" \in faults
        THEN storage
        ELSE setItem(storage, CacheKey(key), JSONstringify(cacheItem))
set_storage(key, data, faults) ==
    LET cacheItem == JObj([data |-> data, timestamp |-> JNum(now)])
    IN  IF "setItem" \in faults
        THEN storage
        ELSE setItem(storage, CacheKey(key), JSONstringify(cacheItem))

\* When the set overwrites an entry that an earlier set stored with other
\* data: the time of that earlier set.
Overwritten(key, data) ==
    IF fresh[key] # None /\ fresh[key].at < now /\ ToJSON(fresh[key].data) # ToJSON(data)
    THEN fresh[key].at ELSE -1

set(key, data, faults) ==
    LET ok == "setItem" \notin faults
    IN  /\ storage' = set_storage(key, data, faults)
        /\ last' = [op |-> "set", key |-> key, res |-> Undefined, ok |-> ok]
        /\ fresh' = [fresh EXCEPT ![key] =
                        IF ok THEN [data |-> data, at |-> now, over |-> Overwritten(key, data)]
                        ELSE None]
        /\ gone' = [gone EXCEPT ![key] = ""]
        /\ UNCHANGED <<app, downloads, calls, dirExists, files, now, dl>>

\* Date.now() - cacheItem.timestamp > CACHE_EXPIRY
\* (a timestamp that is not a number makes the difference NaN, and NaN > n is false)
ExpiredGE(cacheItem) ==
    /\ Prop(cacheItem, "timestamp").t = "num"
    /\ now - Prop(cacheItem, "timestamp").n >= CACHE_EXPIRY
Expired(cacheItem) ==
    /\ Prop(cacheItem, "timestamp").t = "num"
    /\ now - Prop(cacheItem, "timestamp").n > CACHE_EXPIRY

\* cache.remove: the storage it leaves.
remove_unprefixed(st, key, faults) ==
    IF "removeItem" \in faults \/ key \notin DOMAIN st THEN st ELSE removeItem(st, key)
remove_storage(st, key, faults) ==
    IF "removeItem" \in faults THEN st ELSE removeItem(st, CacheKey(key))

\* cache.get: the storage it leaves, what it returns, whether its I/O succeeded.
get_keepsExpired(key, faults) ==
    LET cached == getItem(storage, CacheKey(key))
        cacheItem == JSONparse(cached)
    IN  IF "getItem" \in faults
        THEN [storage |-> storage, res |-> JNull, ok |-> FALSE]
        ELSE IF cached = NoItem
        THEN [storage |-> storage, res |-> JNull, ok |-> TRUE]
        ELSE IF ~Parses(cached) \/ cacheItem \in {JNull, Undefined}
        THEN [storage |-> storage, res |-> JNull, ok |-> TRUE]   \* SyntaxError, TypeError
        ELSE IF Expired(cacheItem)
        THEN [storage |-> storage, res |-> JNull, ok |-> TRUE]
        ELSE [storage |-> storage, res |-> Prop(cacheItem, "data"), ok |-> TRUE]
get_outcome(key, faults) ==
    LET cached == getItem(storage, CacheKey(key))
        cacheItem == JSONparse(cached)
    IN  IF "getItem" \in faults
        THEN [storage |-> storage, res |-> JNull, ok |-> FALSE]
        ELSE IF cached = NoItem
        THEN [storage |-> storage, res |-> JNull, ok |-> TRUE]
        ELSE IF ~Parses(cached) \/ cacheItem \in {JNull, Undefined}
        THEN [storage |-> storage, res |-> JNull, ok |-> TRUE]   \* SyntaxError, TypeError
        ELSE IF Expired(cacheItem)
        THEN [storage |-> remove_storage(storage, key, faults), res |-> JNull,
              ok |-> "removeItem" \notin faults]
        ELSE [storage |-> storage, res |-> Prop(cacheItem, "data"), ok |-> TRUE]

\* A stored string that is no entry, or the JSON text of a CacheItem: an
\* object with a numeric timestamp and the data (JSON.stringify drops a data
\* property that is undefined).
WellFormed(cached) ==
    \/ cached = NoItem
    \/ /\ Parses(cached)
       /\ JSONparse(cached).t = "obj"
       /\ DOMAIN JSONparse(cached).o \in {{"data", "timestamp"}, {"timestamp"}}
       /\ JSONparse(cached).o.timestamp.t = "num"

\* The entry of `key` was stored more than the TTL ago.
StoredLongAgo(key) == fresh[key] # None /\ now - fresh[key].at > CACHE_EXPIRY

\* The entry of `key` was stored within the TTL and holds more than null.
Readable(key) ==
    fresh[key] # None /\ ~StoredLongAgo(key) /\ ToJSON(fresh[key].data) # JNull

get(key, faults) ==
    LET out == get_outcome(key, faults)
    IN  /\ storage' = out.storage
        /\ last' = [op |-> "get", key |-> key, at |-> now, res |-> out.res, ok |-> out.ok,
                    malformed |-> ~WellFormed(getItem(storage, CacheKey(key)))]
        /\ gone' = [gone EXCEPT ![key] =
                       IF out.ok /\ StoredLongAgo(key) THEN "expired" ELSE @]
        /\ UNCHANGED <<app, downloads, calls, dirExists, files, now, fresh, dl>>

remove(key, faults) ==
    LET ok == "removeItem" \notin faults
    IN  /\ storage' = remove_storage(storage, key, faults)
        /\ last' = [op |-> "remove", key |-> key, res |-> Undefined, ok |-> ok]
        /\ fresh' = [fresh EXCEPT ![key] = None]
        /\ gone' = [gone EXCEPT ![key] =
                       IF ~ok THEN @
                       ELSE IF Readable(key) THEN "removedLive" ELSE "removed"]
        /\ UNCHANGED <<app, downloads, calls, dirExists, files, now, dl>>

\* A string lands under a cache key from outside cache.set (an older build,
\* a truncated write).
ExternalWrite(key, s) ==
    /\ storage' = setItem(storage, CacheKey(key), s)
    /\ last' = [op |-> "externalWrite", key |-> key]
    /\ fresh' = [fresh EXCEPT ![key] = None]
    /\ gone' = [gone EXCEPT ![key] = ""]
    /\ UNCHANGED <<app, downloads, calls, dirExists, files, now, dl>>

\* key.startsWith(CACHE_PREFIX)
IsCacheKeyShort(key) == startsWith(key, "@watchnlearn_")
IsCacheKey(key) == startsWith(key, CACHE_PREFIX)

\* cache.clear: the storage it leaves.
clear_storage(faults) ==
    LET keys == getAllKeys(storage)
        cacheKeys == {key \in keys : IsCacheKey(key)}
    IN  IF "getAllKeys" \in faults \/ "multiRemove" \in faults
        THEN storage
        ELSE multiRemove(storage, cacheKeys)

clear(faults) ==
    LET ok == faults = {}
    IN  /\ storage' = clear_storage(faults)
        /\ last' = [op |-> "clear", res |-> Undefined, ok |-> ok, before |-> storage]
        /\ fresh' = [k \in Keys |-> None]
        /\ UNCHANGED <<app, downloads, calls, dirExists, files, now, gone, dl>>

(***************************************************************************)
(* The clock.                                                              *)
(***************************************************************************)
Instants(base) == {base + d : d \in 0..MaxClock}

Tick(t) ==
    /\ t > now
    /\ now' = t
    /\ UNCHANGED <<app, downloads, calls, storage, dirExists, files, last, fresh, gone, dl>>

(***************************************************************************)
(* FileSystem (expo-file-system), on fs = [dir, files].                    *)
(***************************************************************************)
NoFile == ""

Extension(type) == IF type = "video" THEN ".mp4" ELSE ".pdf"
Filename(id, type) == id \o Extension(type)
LocalUri(id, type) == DOWNLOADS_DIR \o Filename(id, type)

AllUris == {LocalUri(id, type) : id \in Ids, type \in Types}

FS == [dir |-> dirExists, files |-> files]

\* getInfoAsync(uri).exists
exists(fs, uri) ==
    IF uri = DOWNLOADS_DIR THEN fs.dir
    ELSE fs.dir /\ uri \in DOMAIN fs.files /\ fs.files[uri] # NoFile

\* makeDirectoryAsync(DOWNLOADS_DIR, {intermediates: true}), when it resolves;
\* a directory that is there already is left as it is
makeDirectoryAsync_recreates(fs) == [dir |-> TRUE, files |-> [u \in DOMAIN fs.files |-> NoFile]]
makeDirectoryAsync(fs) == [fs EXCEPT !.dir = TRUE]

\* downloadAsync(url, localUri), when it resolves
downloadAsync(fs, url, localUri) == [fs EXCEPT !.files[localUri] = url]

\* deleteAsync(uri, {idempotent: true}), when it resolves
deleteAsync(fs, uri) ==
    IF uri = DOWNLOADS_DIR
    THEN [dir |-> FALSE, files |-> [u \in DOMAIN fs.files |-> NoFile]]
    ELSE [fs EXCEPT !.files = [u \in DOMAIN fs.files |->
                                  IF u = uri THEN NoFile ELSE fs.files[u]]]

(***************************************************************************)
(* downloads                                                               *)
(***************************************************************************)
\* The records the persisted manifest holds.
Manifest ==
    IF storage[DOWNLOADS_KEY] = NoItem THEN <<>> ELSE storage[DOWNLOADS_KEY].text.a

Min(S) == CHOOSE x \in S : \A y \in S : x <= y

\* downloads.init
init_outcome(fs, faults) ==
    IF "getInfoAsync" \in faults THEN [fs |-> fs, ok |-> FALSE]
    ELSE IF exists(fs, DOWNLOADS_DIR) THEN [fs |-> fs, ok |-> TRUE]
    ELSE IF "makeDirectoryAsync" \in faults THEN [fs |-> fs, ok |-> FALSE]
    ELSE [fs |-> makeDirectoryAsync(fs), ok |-> TRUE]

\* downloads.getAllRecords: the elements of the array it returns
getAllRecords(st, fails) ==
    LET data == getItem(st, DOWNLOADS_KEY)
    IN  IF fails THEN <<>>
        ELSE IF data # NoItem THEN JSONparse(data).a ELSE <<>>

\* downloads.saveAllRecords: the storage it leaves
saveAllRecords_noWrite(st, records, fails) == st
saveAllRecords(st, records, fails) ==
    IF fails THEN st ELSE setItem(st, DOWNLOADS_KEY, JSONstringify(JArr(records)))

\* records.findIndex(r => r.id === id)
findIndex(records, id) ==
    LET I == {i \in DOMAIN records : Prop(records[i], "id") = JStr(id)}
    IN  IF I = {} THEN -1 ELSE Min(I) - 1

\* records.find(r => r.id === id) || null
find(records, id) ==
    LET i == findIndex(records, id)
    IN  IF i >= 0 THEN records[i + 1] ELSE JNull

\* records.filter(r => r.id !== id)
RECURSIVE filterOut(_, _)
filterOut(records, id) ==
    IF records = <<>> THEN <<>>
    ELSE IF Prop(Head(records), "id") # JStr(id)
    THEN <<Head(records)>> \o filterOut(Tail(records), id)
    ELSE filterOut(Tail(records), id)

\* downloads.getDownload
getDownload(st, id, fails) == find(getAllRecords(st, fails), id)

\* downloads.saveRecord: the array it hands to saveAllRecords
upsert_push(records, record) == Append(records, record)
upsert(records, record) ==
    LET existingIndex == findIndex(records, Prop(record, "id").s)
    IN  IF existingIndex >= 0
        THEN [records EXCEPT ![existingIndex + 1] = record]
        ELSE Append(records, record)

\* downloads.saveRecord: the storage it leaves
saveRecord(st, record, faults) ==
    LET records == getAllRecords(st, "getAllRecords" \in faults)
    IN  saveAllRecords(st, upsert(records, record), "saveAllRecords" \in faults)

DownloadRecord(id, name, type, url, localUri, downloadedAt) ==
    JObj([id |-> JStr(id), name |-> JStr(name), type |-> JStr(type), url |-> JStr(url),
          localUri |-> JStr(localUri), downloadedAt |-> JNum(downloadedAt)])

\* downloads.download: the storage and files it leaves, what it returns
download_outcome(id, name, url, type, faults) ==
    LET i == init_outcome(FS, faults)
        localUri == LocalUri(id, type)
        record == DownloadRecord(id, name, type, url, localUri, now)
    IN  IF "downloadAsync" \in faults \/ ~exists(i.fs, DOWNLOADS_DIR)
        THEN [storage |-> storage, fs |-> i.fs, res |-> JNull, ok |-> FALSE]
        ELSE [storage |-> saveRecord(storage, record, faults),
              fs |-> downloadAsync(i.fs, url, localUri),
              res |-> JStr(localUri),
              ok |-> i.ok /\ "getAllRecords" \notin faults /\ "saveAllRecords" \notin faults]

\* The manifest held a record of the id, stored earlier under another name and url.
Differs(prior, name, url) ==
    /\ prior # JNull
    /\ Prop(prior, "name") # JStr(name)
    /\ Prop(prior, "url") # JStr(url)
    /\ Prop(prior, "downloadedAt") # JNum(now)

download(id, name, url, type, faults) ==
    LET out == download_outcome(id, name, url, type, faults)
    IN  /\ storage' = out.storage
        /\ dirExists' = out.fs.dir
        /\ files' = out.fs.files
        /\ last' = [op |-> "download", id |-> id, name |-> name, url |-> url, type |-> type,
                    at |-> now, res |-> out.res, ok |-> out.ok, again |-> dl[id] = "ok",
                    differs |-> Differs(getDownload(storage, id, FALSE), name, url)]
        /\ dl' = [dl EXCEPT ![id] = IF out.res = JNull THEN ""
                                    ELSE IF out.ok THEN "ok" ELSE "path"]
        /\ UNCHANGED <<app, downloads, calls, now, fresh, gone>>

\* downloads.isDownloaded: what it returns
isDownloaded_recordOnly(id, faults) ==
    LET record == getDownload(storage, id, "getDownload" \in faults)
    IN  IF record = JNull
        THEN [res |-> JBool(FALSE), ok |-> "getDownload" \notin faults]
        ELSE IF "getInfoAsync" \in faults
        THEN [res |-> Threw, ok |-> FALSE]
        ELSE [res |-> JBool(TRUE), ok |-> TRUE]
isDownloaded_outcome(id, faults) ==
    LET record == getDownload(storage, id, "getDownload" \in faults)
    IN  IF record = JNull
        THEN [res |-> JBool(FALSE), ok |-> "getDownload" \notin faults]
        ELSE IF "getInfoAsync" \in faults
        THEN [res |-> Threw, ok |-> FALSE]
        ELSE [res |-> JBool(exists(FS, Prop(record, "localUri").s)), ok |-> TRUE]

isDownloaded(id, faults) ==
    LET out == isDownloaded_outcome(id, faults)
    IN  /\ last' = [op |-> "isDownloaded", id |-> id, res |-> out.res, ok |-> out.ok]
        /\ UNCHANGED <<app, downloads, calls, storage, dirExists, files, now, fresh, gone, dl>>

\* downloads.deleteDownload: the storage and files it leaves
deleteDownload_returnsEarly(id, faults) ==
    [storage |-> storage, fs |-> FS, ok |-> faults = {}]
deleteDownload_ignoresFileFailure(id, faults) ==
    LET record == getDownload(storage, id, "getDownload" \in faults)
        records == getAllRecords(storage, "getAllRecords" \in faults)
        updatedRecords == filterOut(records, id)
    IN  IF record = JNull
        THEN [storage |-> storage, fs |-> FS, ok |-> "getDownload" \notin faults]
        ELSE [storage |-> saveAllRecords(storage, updatedRecords, "saveAllRecords" \in faults),
              fs |-> IF "deleteAsync" \in faults THEN FS
                     ELSE deleteAsync(FS, Prop(record, "localUri").s),
              ok |-> faults = {}]
deleteDownload_outcome(id, faults) ==
    LET record == getDownload(storage, id, "getDownload" \in faults)
        records == getAllRecords(storage, "getAllRecords" \in faults)
        updatedRecords == filterOut(records, id)
    IN  IF record = JNull
        THEN [storage |-> storage, fs |-> FS, ok |-> "getDownload" \notin faults]
        ELSE IF "deleteAsync" \in faults
        THEN [storage |-> storage, fs |-> FS, ok |-> FALSE]
        ELSE [storage |-> saveAllRecords(storage, updatedRecords, "saveAllRecords" \in faults),
              fs |-> deleteAsync(FS, Prop(record, "localUri").s),
              ok |-> faults = {}]

\* The manifest holds a record of `id` and the record's file exists.
Live(id) ==
    LET record == getDownload(storage, id, FALSE)
    IN  record # JNull /\ exists(FS, Prop(record, "localUri").s)

deleteDownload(id, faults) ==
    LET out == deleteDownload_outcome(id, faults)
    IN  /\ storage' = out.storage
        /\ dirExists' = out.fs.dir
        /\ files' = out.fs.files
        /\ last' = [op |-> "deleteDownload", id |-> id, res |-> Undefined, ok |-> out.ok,
                    fileFailed |-> "deleteAsync" \in faults
                                       /\ getDownload(storage, id, FALSE) # JNull]
        /\ dl' = [dl EXCEPT ![id] = IF ~out.ok THEN ""
                                    ELSE IF Live(id) THEN "deletedLive" ELSE "deleted"]
        /\ UNCHANGED <<app, downloads, calls, now, fresh, gone>>

\* downloads.clearAll: the storage and files it leaves
clearAll_keepsManifest(faults) ==
    LET fs1 == deleteAsync(FS, DOWNLOADS_DIR)
        i == init_outcome(fs1, faults)
    IN  IF "deleteAsync" \in faults
        THEN [storage |-> storage, fs |-> FS, ok |-> FALSE]
        ELSE IF "removeItem" \in faults
        THEN [storage |-> storage, fs |-> fs1, ok |-> FALSE]
        ELSE [storage |-> storage, fs |-> i.fs, ok |-> i.ok]
clearAll_outcome(faults) ==
    LET fs1 == deleteAsync(FS, DOWNLOADS_DIR)
        i == init_outcome(fs1, faults)
    IN  IF "deleteAsync" \in faults
        THEN [storage |-> storage, fs |-> FS, ok |-> FALSE]
        ELSE IF "removeItem" \in faults
        THEN [storage |-> storage, fs |-> fs1, ok |-> FALSE]
        ELSE [storage |-> removeItem(storage, DOWNLOADS_KEY), fs |-> i.fs, ok |-> i.ok]

clearAll(faults) ==
    LET out == clearAll_outcome(faults)
    IN  /\ storage' = out.storage
        /\ dirExists' = out.fs.dir
        /\ files' = out.fs.files
        /\ last' = [op |-> "clearAll", res |-> Undefined, ok |-> out.ok,
                    had |-> Manifest # <<>> /\ \E u \in AllUris : exists(FS, u)]
        /\ dl' = [id \in Ids |-> ""]
        /\ UNCHANGED <<app, downloads, calls, now, fresh, gone>>

\* A file of the downloads directory is removed from outside the app.
IdOf(uri) == CHOOSE id \in Ids : \E type \in Types : LocalUri(id, type) = uri

ExternalRemove(uri) ==
    /\ exists(FS, uri)
    /\ files' = [files EXCEPT ![uri] = NoFile]
    /\ last' = [op |-> "externalRemove", uri |-> uri]
    /\ dl' = [dl EXCEPT ![IdOf(uri)] = IF @ \in {"ok", "path"} THEN "" ELSE @]
    /\ UNCHANGED <<app, downloads, calls, storage, dirExists, now, fresh, gone>>

(***************************************************************************)
(* DownloadsScreen (src/app/(tabs)/downloads.tsx).  The screen lists the   *)
(* files of the downloads directory; an item is kept as its uri (the       *)
(* item's id and name are the file name, its size and date are shown only).*)
(***************************************************************************)
\* loadDownloads: the list it sets
loadDownloads_list(faults) ==
    IF faults # {} \/ ~exists(FS, DOWNLOADS_DIR) THEN downloads
    ELSE {u \in AllUris : exists(FS, u)}

loadDownloads(faults) ==
    /\ downloads' = loadDownloads_list(faults)
    /\ last' = [op |-> "loadDownloads", res |-> Undefined, ok |-> faults = {}]
    /\ UNCHANGED <<app, calls, storage, dirExists, files, now, fresh, gone, dl>>

\* handleDelete(file): deleteAsync without the idempotent option rejects when
\* the file is not there.
handleDelete_outcome(uri, faults) ==
    IF "deleteAsync" \in faults \/ ~exists(FS, uri)
    THEN [fs |-> FS, downloads |-> downloads, ok |-> FALSE]
    ELSE [fs |-> deleteAsync(FS, uri), downloads |-> downloads \ {uri}, ok |-> TRUE]

handleDelete(uri, faults) ==
    LET out == handleDelete_outcome(uri, faults)
    IN  /\ uri \in downloads
        /\ files' = out.fs.files
        /\ downloads' = out.downloads
        /\ last' = [op |-> "handleDelete", uri |-> uri, id |-> IdOf(uri),
                    res |-> Undefined, ok |-> out.ok]
        /\ dl' = [dl EXCEPT ![IdOf(uri)] =
                     IF out.ok /\ @ \in {"ok", "path"} THEN "" ELSE @]
        /\ UNCHANGED <<app, calls, storage, dirExists, now, fresh, gone>>

(***************************************************************************)
(* Overlapping calls.  An async function runs up to its first await when   *)
(* it is called and then from await to await; the JavaScript between two   *)
(* awaits is atomic, and other calls run while a call is suspended.  A     *)
(* call is suspended at the I/O promise named by its pc; a step settles    *)
(* that promise (it rejects when `fault`) and runs the call up to its next *)
(* await or its return.                                                    *)
(***************************************************************************)
Slots == {1, 2}

\* A call: the function, the await it is suspended at, its arguments, its
\* locals `record` and `records`, what it returned, whether all of its I/O
\* succeeded so far, whether it ran while another call was suspended, and a
\* note on what it met.
Call(op, pc, arg) ==
    [op |-> op, pc |-> pc, arg |-> arg, record |-> JNull, records |-> <<>>,
     res |-> Undefined, ok |-> TRUE, overlapped |-> FALSE, note |-> ""]

\* A slot no call is running in.
Idle == Call("none", "idle", JNull)

Suspended(c) == c.pc \notin {"idle", "done"}

Running(c, pc) == [c EXCEPT !.pc = pc]
Failed(c) == [c EXCEPT !.ok = FALSE]
Done(c, res) == [c EXCEPT !.pc = "done", !.res = res, !.record = JNull, !.records = <<>>]

\* Where a call goes on when its init() has returned.
AfterInit(c) == IF c.op = "download" THEN Running(c, "downloadAsync") ELSE Done(c, Undefined)

\* downloads.init, from one await to the next
init_step(c, fault) ==
    LET same == [storage |-> storage, fs |-> FS]
    IN  IF fault THEN same @@ [call |-> AfterInit(Failed(c))]
        ELSE IF c.pc = "getInfoAsync"
        THEN same @@ [call |-> IF exists(FS, DOWNLOADS_DIR) THEN AfterInit(c)
                                ELSE Running(c, "makeDirectoryAsync")]
        ELSE [storage |-> storage, fs |-> makeDirectoryAsync(FS),
              call |-> AfterInit([c EXCEPT !.note =
                                     IF exists(FS, DOWNLOADS_DIR) THEN "raced" ELSE @])]

\* downloads.download, from the await of downloadAsync to the await in saveRecord
download_step(c, fault) ==
    LET localUri == LocalUri(c.arg.id, c.arg.type)
        record == DownloadRecord(c.arg.id, c.arg.name, c.arg.type, c.arg.url, localUri, now)
    IN  IF fault \/ ~exists(FS, DOWNLOADS_DIR)
        THEN [storage |-> storage, fs |-> FS, call |-> Done(Failed(c), JNull)]
        ELSE [storage |-> storage, fs |-> downloadAsync(FS, c.arg.url, localUri),
              call |-> [Running(c, "getAllRecords") EXCEPT !.record = record]]

\* downloads.saveRecord inside download: the read, then the write and the return
saveRecord_step(c, fault) ==
    IF c.pc = "getAllRecords"
    THEN [storage |-> storage, fs |-> FS,
          call |-> [Running(IF fault THEN Failed(c) ELSE c, "saveAllRecords")
                       EXCEPT !.records = getAllRecords(storage, fault)]]
    ELSE [storage |-> saveAllRecords(storage, upsert(c.records, c.record), fault),
          fs |-> FS,
          call |-> Done(IF fault THEN Failed(c) ELSE c, Prop(c.record, "localUri"))]

\* downloads.deleteDownload, from one await to the next
deleteDownload_step(c, fault) ==
    LET same == [storage |-> storage, fs |-> FS]
        c1 == IF fault THEN Failed(c) ELSE c
        record == getDownload(storage, c.arg.id, fault)
    IN  CASE c.pc = "getDownload" ->
               same @@ [call |-> IF record = JNull THEN Done(c1, Undefined)
                                 ELSE [Running(c1, "deleteAsync") EXCEPT !.record = record]]
          [] c.pc = "deleteAsync" ->
               IF fault THEN same @@ [call |-> Done(c1, Undefined)]
               ELSE [storage |-> storage,
                     fs |-> deleteAsync(FS, Prop(c.record, "localUri").s),
                     call |-> Running(c, "getAllRecords")]
          [] c.pc = "getAllRecords" ->
               same @@ [call |-> [Running(c1, "saveAllRecords")
                                     EXCEPT !.records = getAllRecords(storage, fault)]]
          [] OTHER ->
               [storage |-> saveAllRecords(storage, filterOut(c.records, c.arg.id), fault),
                fs |-> FS,
                call |-> Done(c1, Undefined)]

\* downloads.clearAll, up to its call of init
clearAll_step(c, fault) ==
    LET same == [storage |-> storage, fs |-> FS]
    IN  IF fault THEN same @@ [call |-> Done(Failed(c), Undefined)]
        ELSE IF c.pc = "deleteAsync"
        THEN [storage |-> storage, fs |-> deleteAsync(FS, DOWNLOADS_DIR),
              call |-> Running(c, "removeItem")]
        ELSE [storage |-> removeItem(storage, DOWNLOADS_KEY), fs |-> FS,
              call |-> Running(c, "getInfoAsync")]

\* cache.get, from one await to the next
get_step(c, fault) ==
    LET same == [storage |-> storage, fs |-> FS]
        cached == getItem(storage, CacheKey(c.arg.key))
        cacheItem == JSONparse(cached)
    IN  IF c.pc = "getItem"
        THEN same @@ [call |->
               IF fault THEN Done(Failed(c), JNull)
               ELSE IF cached = NoItem THEN Done(c, JNull)
               ELSE IF ~Parses(cached) \/ cacheItem \in {JNull, Undefined} THEN Done(c, JNull)
               ELSE IF Expired(cacheItem) THEN Running(c, "removeItem")
               ELSE Done(c, Prop(cacheItem, "data"))]
        ELSE [storage |-> remove_storage(storage, c.arg.key,
                                         IF fault THEN {"removeItem"} ELSE {}),
              fs |-> FS,
              call |-> Done(IF fault THEN Failed(c) ELSE c, JNull)]

\* cache.set: the await of setItem and the return
set_step(c, fault) ==
    [storage |-> IF fault THEN storage
                 ELSE setItem(storage, CacheKey(c.arg.key), c.arg.text),
     fs |-> FS,
     call |-> Done(IF fault THEN Failed(c) ELSE c, Undefined)]

\* The step of a suspended call.
step_outcome(c, fault) ==
    CASE c.pc \in {"getInfoAsync", "makeDirectoryAsync"} -> init_step(c, fault)
      [] c.op = "download" /\ c.pc = "downloadAsync" -> download_step(c, fault)
      [] c.op = "download" -> saveRecord_step(c, fault)
      [] c.op = "deleteDownload" -> deleteDownload_step(c, fault)
      [] c.op = "clearAll" -> clearAll_step(c, fault)
      [] c.op = "get" -> get_step(c, fault)
      [] OTHER -> set_step(c, fault)

\* While cache.get waits to remove an entry it found expired, another call
\* writes the key.
Overwrites(c, d, out) ==
    /\ d.op = "get" /\ d.pc = "removeItem"
    /\ c.op = "set" /\ c.arg.key = d.arg.key
    /\ out.storage # storage

Step(s, fault) ==
    LET out == step_outcome(calls[s], fault)
    IN  /\ Suspended(calls[s])
        /\ storage' = out.storage
        /\ dirExists' = out.fs.dir
        /\ files' = out.fs.files
        /\ calls' = [t \in Slots |->
                        IF t = s THEN out.call
                        ELSE IF Overwrites(calls[s], calls[t], out)
                        THEN [calls[t] EXCEPT !.note = "overwritten"]
                        ELSE calls[t]]
        /\ UNCHANGED <<app, now, last, fresh, gone, dl, downloads>>

\* A function is called and runs up to its first await; the call takes the
\* first free slot (which slot it takes makes no difference to what it does).
Start(s, c) ==
    LET other == \E t \in Slots \ {s} : Suspended(calls[t])
    IN  /\ ~Suspended(calls[s])
        /\ \A t \in Slots : t < s => Suspended(calls[t])
        /\ calls' = [t \in Slots |->
                        IF t = s THEN [c EXCEPT !.overlapped = other]
                        ELSE IF Suspended(calls[t]) THEN [calls[t] EXCEPT !.overlapped = TRUE]
                        ELSE calls[t]]
        /\ UNCHANGED <<app, storage, dirExists, files, now, last, fresh, gone, dl, downloads>>

StartInit(s) == Start(s, Call("init", "getInfoAsync", JNull))
StartDownload(s, item) == Start(s, Call("download", "getInfoAsync", item))
StartDeleteDownload(s, id) == Start(s, Call("deleteDownload", "getDownload", [id |-> id]))
StartClearAll(s) == Start(s, Call("clearAll", "deleteAsync", JNull))
StartGet(s, key) == Start(s, Call("get", "getItem", [key |-> key]))
StartSet(s, key, data) ==
    Start(s, Call("set", "setItem",
                  [key |-> key,
                   text |-> JSONstringify(JObj([data |-> data, timestamp |-> JNum(now)]))]))

(***************************************************************************)
(* AuthProvider (src/contexts/AuthContext.tsx).                            *)
(***************************************************************************)
Users == {"u1", "u2"}

User(id) == JObj([id |-> JStr(id)])
Session(id) == JObj([user |-> User(id)])
Student(id) == JObj([id |-> JStr(id)])
Sessions == {JNull} \cup {Session(id) : id \in Users}

\* The backend tables (each a bag of rows), empty.
NoRows ==
    [enrollments |-> EmptyBag, student_enrollment_requests |-> EmptyBag,
     student_progress |-> EmptyBag, topic_progress |-> {}]

\* .upsert(row) into topic_progress, when it resolves without an error
upsertRow(table, row) ==
    {r \in table : ~(r.student_id = row.student_id /\ r.topic_id = row.topic_id)} \cup {row}

\* .insert(row), when it resolves without an error
insert(table, row) == table (+) SetToBag({row})

\* A screen that is not mounted.
NoScreen == [open |-> FALSE]

\* useState(null), useState(null), useState(null), useState(true); the effect
\* has called getSession and subscribed; no loadStudentProfile is in flight.
AuthProvider ==
    [session |-> JNull, user |-> JNull, student |-> JNull, loading |-> TRUE,
     getSession |-> "pending", loads |-> [id \in Users |-> 0]]

\* session?.user ?? null
UserOf(session) == IF session = JNull THEN JNull ELSE Prop(session, "user")

\* loadStudentProfile(userId) is called and suspends at its query.
loadStudentProfile_called(a, userId) == [a EXCEPT !.loads[userId] = @ + 1]

\* What the two callbacks of the effect do with the session they are given.
useEffect_getSession(a, session) ==
    LET b == [a EXCEPT !.session = session, !.user = UserOf(session)]
    IN  IF UserOf(session) # JNull
        THEN loadStudentProfile_called(b, Prop(UserOf(session), "id").s)
        ELSE [b EXCEPT !.loading = FALSE]
useEffect_onAuthStateChange(a, session) ==
    LET b == [a EXCEPT !.session = session, !.user = UserOf(session)]
    IN  IF UserOf(session) # JNull
        THEN loadStudentProfile_called(b, Prop(UserOf(session), "id").s)
        ELSE [b EXCEPT !.student = JNull, !.loading = FALSE]

CanLoad(session) ==
    UserOf(session) # JNull => auth.loads[Prop(UserOf(session), "id").s] < MaxLoads

\* supabase.auth.getSession() resolves with the client's session.
getSession_then ==
    /\ auth.getSession = "pending"
    /\ CanLoad(authSession)
    /\ auth' = [useEffect_getSession(auth, authSession) EXCEPT !.getSession = "resolved"]
    /\ UNCHANGED <<lib, authSession, explore, quiz, topicScreen, chaptersScreen, home, db>>

\* The client's session changes (sign-in, sign-out, token refresh) and the
\* subscribed callback runs with it.
onAuthStateChange(session) ==
    /\ CanLoad(session)
    /\ authSession' = session
    /\ auth' = useEffect_onAuthStateChange(auth, session)
    /\ UNCHANGED <<lib, explore, quiz, topicScreen, chaptersScreen, home, db>>

\* The students query of a loadStudentProfile(userId) resolves: with the
\* student's row, with no row, or with an error.
loadStudentProfile_then(userId, result) ==
    LET done == [auth EXCEPT !.loads[userId] = @ - 1, !.loading = FALSE]
    IN  /\ auth.loads[userId] > 0
        /\ auth' = CASE result = "row" -> [done EXCEPT !.student = Student(userId)]
                      [] result = "none" -> [done EXCEPT !.student = JNull]
                      [] OTHER -> done
        /\ UNCHANGED <<lib, authSession, explore, quiz, topicScreen, chaptersScreen, home, db>>

QueryResults == {"row", "none", "error"}

(***************************************************************************)
(* ExploreScreen (src/app/(tabs)/explore.tsx) and the Enroll button of     *)
(* SubjectCard (src/unnamed/part_002).                                     *)
(***************************************************************************)
Subjects == {"s1", "s2"}
Enrolls == 1..MaxEnrolls

NoEnroll == [subject |-> "", pc |-> "idle", student |-> ""]

\* The screen once loadSubjects and loadEnrollments have resolved for a
\* student who is enrolled in nothing.
ExploreScreen ==
    [open |-> TRUE, loading |-> FALSE, enrollingId |-> JNull, enrolledIds |-> {},
     enrolls |-> [e \in Enrolls |-> NoEnroll]]

\* The card of `subject` shows an Enroll button that can be pressed:
\* showEnrollButton={!enrolledIds.has(item.id)}, disabled={enrolling},
\* enrolling={enrollingId === item.id}
EnrollButtonEnabled(subject) ==
    /\ explore.open /\ ~explore.loading
    /\ subject \notin explore.enrolledIds
    /\ explore.enrollingId # JStr(subject)

\* handleEnroll(subject) up to its first await.
handleEnroll(e, subject) ==
    /\ EnrollButtonEnabled(subject)
    /\ auth.user # JNull
    /\ BagCardinality(db.enrollments) < MaxRows
    /\ explore.enrolls[e].pc = "idle"
    /\ \A f \in Enrolls : f < e => explore.enrolls[f].pc # "idle"
    /\ explore' = [explore EXCEPT
                      !.enrollingId = JStr(subject),
                      !.enrolls[e] = [subject |-> subject, pc |-> "getSession", student |-> ""]]
    /\ UNCHANGED <<lib, authSession, auth, quiz, topicScreen, chaptersScreen, home, db>>

\* finally { setEnrollingId(null) }
handleEnroll_finally(x, e) ==
    [x EXCEPT !.enrollingId = JNull, !.enrolls[e] = NoEnroll]

\* The await a handleEnroll call is suspended at resolves (or rejects, or
\* resolves with an error), and the call runs to its next await or its end.
handleEnroll_then(e, fault) ==
    LET c == explore.enrolls[e]
        row == [student_id |-> c.student, subject_id |-> c.subject]
    IN  /\ c.pc # "idle"
        /\ CASE c.pc = "getSession" ->
                  /\ explore' =
                        IF fault \/ authSession = JNull
                        THEN handleEnroll_finally(explore, e)
                        ELSE [explore EXCEPT
                                !.enrolls[e].pc = "insertEnrollment",
                                !.enrolls[e].student = Prop(UserOf(authSession), "id").s]
                  /\ db' = db
             [] c.pc = "insertEnrollment" ->
                  /\ explore' =
                        IF fault THEN handleEnroll_finally(explore, e)
                        ELSE [explore EXCEPT !.enrolls[e].pc = "insertRequest"]
                  /\ db' = IF fault THEN db
                            ELSE [db EXCEPT !.enrollments = insert(@, row)]
             [] OTHER ->
                  /\ explore' =
                        IF fault THEN handleEnroll_finally(explore, e)
                        ELSE handleEnroll_finally(
                                 [explore EXCEPT !.enrolledIds = @ \cup {c.subject}], e)
                  /\ db' = IF fault THEN db
                            ELSE [db EXCEPT !.student_enrollment_requests = insert(@, row)]
        /\ UNCHANGED <<lib, authSession, auth, quiz, topicScreen, chaptersScreen, home>>

\* A student is signed in and the profile has loaded.
SignedIn(id) ==
    [AuthProvider EXCEPT !.session = Session(id), !.user = User(id),
                         !.student = Student(id), !.loading = FALSE,
                         !.getSession = "resolved"]

(***************************************************************************)
(* QuizScreen (src/unnamed/part_000, lines 17-232).                        *)
(***************************************************************************)
\* The questions rows of a quiz, in order_index order, and the options rows
\* of a question: one correct, one not.
QuestionIds == [i \in 1..MaxQuestions |-> "q" \o ToString(i)]
Option(questionId, letter) ==
    [id |-> questionId \o letter, question_id |-> questionId, is_correct |-> letter = "a"]
OptionsOf(questionId) == {Option(questionId, "a"), Option(questionId, "b")}

\* What the questions query can resolve with, and the options query after it.
QuestionsData == {SubSeq(QuestionIds, 1, n) : n \in 0..MaxQuestions}
OptionsData(questionIds) ==
    LET all == UNION {OptionsOf(questionIds[i]) : i \in DOMAIN questionIds}
    IN  {all, all \ OptionsOf(questionIds[Len(questionIds)])}

\* useState([]), useState(0), useState(new Map()), useState(true),
\* useState(false); the effect has called loadQuiz, which awaits its query.
QuizScreen ==
    [open |-> TRUE, questions |-> <<>>, currentIndex |-> 0, answers |-> <<>>,
     loading |-> TRUE, submitting |-> FALSE,
     loadQuiz |-> "questions", questionsData |-> <<>>,
     handleSubmit |-> "idle", row |-> JNull, alert |-> "", back |-> FALSE]

\* Math.round(x) of x = num / den, for num >= 0: NaN when 0 / 0
Mathround(num, den) ==
    IF den = 0 THEN NaN ELSE JNum((2 * num + den) \div (2 * den))

\* questionsData.map(q => ({...q, options: optionsByQuestion[q.id] || []}))
questionsWithOptions(questionsData, optionsData) ==
    [i \in DOMAIN questionsData |->
        [id |-> questionsData[i],
         options |-> {o \in optionsData : o.question_id = questionsData[i]}]]

\* loadQuiz: the questions query resolves (or fails).
loadQuiz_questions(data, fault) ==
    /\ quiz.open
    /\ quiz.loadQuiz = "questions"
    /\ quiz' =
          IF fault
          THEN [quiz EXCEPT !.loadQuiz = "done", !.alert = "Error",
                            !.back = TRUE, !.loading = FALSE]
          ELSE IF Len(data) = 0
          THEN [quiz EXCEPT !.loadQuiz = "done", !.alert = "No Questions",
                            !.back = TRUE, !.loading = FALSE]
          ELSE [quiz EXCEPT !.loadQuiz = "options", !.questionsData = data]
    /\ UNCHANGED <<lib, authSession, auth, explore, topicScreen, chaptersScreen, home, db>>

\* loadQuiz: the options query resolves (or fails).
loadQuiz_options(fault) ==
    /\ quiz.open
    /\ quiz.loadQuiz = "options"
    /\ \E data \in OptionsData(quiz.questionsData) :
          quiz' =
            IF fault
            THEN [quiz EXCEPT !.loadQuiz = "done", !.alert = "Error",
                              !.back = TRUE, !.loading = FALSE]
            ELSE [quiz EXCEPT !.loadQuiz = "done", !.loading = FALSE,
                              !.questions = questionsWithOptions(quiz.questionsData, data)]
    /\ UNCHANGED <<lib, authSession, auth, explore, topicScreen, chaptersScreen, home, db>>

\* The screen shows a question: the spinner is gone and the render of lines
\* 152-153 has a question to read.
QuestionShown ==
    /\ quiz.open /\ ~quiz.loading
    /\ quiz.currentIndex + 1 \in DOMAIN quiz.questions

handleSelectOption(optionId) ==
    /\ QuestionShown
    /\ optionId \in {o.id : o \in quiz.questions[quiz.currentIndex + 1].options}
    /\ quiz' = [quiz EXCEPT !.answers =
                    [q \in DOMAIN @ \cup {quiz.questions[quiz.currentIndex + 1].id} |->
                        IF q = quiz.questions[quiz.currentIndex + 1].id THEN optionId ELSE @[q]]]
    /\ UNCHANGED <<lib, authSession, auth, explore, topicScreen, chaptersScreen, home, db>>

\* The Next button is shown while currentIndex < questions.length - 1.
handleNext ==
    /\ QuestionShown
    /\ quiz.currentIndex < Len(quiz.questions) - 1
    /\ quiz' = IF quiz.currentIndex < Len(quiz.questions) - 1
                THEN [quiz EXCEPT !.currentIndex = @ + 1] ELSE quiz
    /\ UNCHANGED <<lib, authSession, auth, explore, topicScreen, chaptersScreen, home, db>>

\* The Previous button is shown while currentIndex > 0.
handlePrevious ==
    /\ QuestionShown
    /\ quiz.currentIndex > 0
    /\ quiz' = IF quiz.currentIndex > 0
                THEN [quiz EXCEPT !.currentIndex = @ - 1] ELSE quiz
    /\ UNCHANGED <<lib, authSession, auth, explore, topicScreen, chaptersScreen, home, db>>

\* answers.size !== questions.length
Incomplete_never(answers, questions) == FALSE
Incomplete(answers, questions) == Cardinality(DOMAIN answers) # Len(questions)

\* The score handleSubmit counts: the questions whose selected option is
\* among the question's options and is correct.
Score(answers, questions) ==
    Cardinality({i \in DOMAIN questions :
        /\ questions[i].id \in DOMAIN answers
        /\ \E o \in questions[i].options : o.id = answers[questions[i].id] /\ o.is_correct})

\* handleSubmit up to its await (the Submit button takes the place of Next
\* on the last question, and is disabled while submitting).
handleSubmit ==
    LET percentage == Mathround(Score(quiz.answers, quiz.questions) * 100, Len(quiz.questions))
    IN  /\ QuestionShown
        /\ ~(quiz.currentIndex < Len(quiz.questions) - 1)
        /\ ~quiz.submitting
        /\ BagCardinality(db.student_progress) < MaxRows
        /\ quiz' =
              IF Incomplete(quiz.answers, quiz.questions)
              THEN [quiz EXCEPT !.alert = "Incomplete"]
              ELSE IF auth.user # JNull
              THEN [quiz EXCEPT !.submitting = TRUE, !.handleSubmit = "insert",
                                !.row = JObj([student_id |-> Prop(auth.user, "id"),
                                              completed |-> JBool(TRUE),
                                              quiz_score |-> percentage])]
              ELSE [quiz EXCEPT !.alert = "Quiz Complete!"]
        /\ UNCHANGED <<lib, authSession, auth, explore, topicScreen, chaptersScreen, home, db>>

\* The insert of handleSubmit resolves, with an error or without.
handleSubmit_then(fault) ==
    /\ quiz.open
    /\ quiz.handleSubmit = "insert"
    /\ quiz' = [quiz EXCEPT !.handleSubmit = "idle", !.submitting = FALSE, !.row = JNull,
                            !.alert = IF fault THEN "Error" ELSE "Quiz Complete!"]
    /\ db' = IF fault THEN db
              ELSE [db EXCEPT !.student_progress = insert(@, quiz.row)]
    /\ UNCHANGED <<lib, authSession, auth, explore, topicScreen, chaptersScreen, home>>

(***************************************************************************)
(* TopicScreen (src/app/subject/topic/[topicId].tsx).                      *)
(***************************************************************************)
\* The topics row the route's topicId names.
Topic(id, type, file_url) == JObj([id |-> JStr(id), type |-> JStr(type), file_url |-> file_url])
Topics == {Topic("t1", "pdf", JStr("https://cdn/c")),
           Topic("t2", "video", JStr("https://youtu.be/a")),
           Topic("t3", "pdf", JNull),
           Topic("t4", "video", JNull)}

\* What maybeSingle() on topic_progress gives: no row, or the row's completed.
ProgressData == {JNull, JObj([completed |-> JBool(FALSE)]), JObj([completed |-> JBool(TRUE)])}

\* video_progress messages of the player: currentTime and duration in seconds.
VideoMessages == {[currentTime |-> 10, duration |-> 100], [currentTime |-> 50, duration |-> 100],
                  [currentTime |-> 95, duration |-> 100], [currentTime |-> 100, duration |-> 100],
                  [currentTime |-> 0, duration |-> 0]}

\* useState(null), useState(true), useState(false), useState(false),
\* useState(0), useRef(false); the effect has called the loadTopic of the
\* first render, which sees that render's topic (null) and user.
TopicScreen(user) ==
    [open |-> TRUE, topic |-> JNull, loading |-> TRUE, completed |-> FALSE,
     downloading |-> FALSE, videoProgress |-> 0, hasMarkedComplete |-> FALSE,
     loadTopic |-> "topic", closure |-> [topic |-> JNull, user |-> user],
     markTopicComplete |-> "idle", row |-> JNull,
     topicData |-> JNull, found |-> "", upserts |-> 0]

\* markTopicComplete, called where `user` and `topic` have the given values,
\* up to its await: whether it issues the upsert.
markTopicComplete_returns(x, user, topic) ==
    user = JNull \/ topic = JNull \/ x.hasMarkedComplete
markTopicComplete_called(x, user, topic) ==
    IF markTopicComplete_returns(x, user, topic) THEN x
    ELSE [x EXCEPT !.hasMarkedComplete = TRUE, !.markTopicComplete = "upsert",
                   !.upserts = @ + 1,
                   !.row = [student_id |-> Prop(user, "id").s,
                            topic_id |-> Prop(topic, "id").s, completed |-> TRUE]]

\* loadTopic: the topics query resolves (or fails).
loadTopic_topic(topicData, fault) ==
    /\ topicScreen.open
    /\ topicScreen.loadTopic = "topic"
    /\ topicScreen' =
          IF fault
          THEN [topicScreen EXCEPT !.loadTopic = "done", !.found = "failed", !.loading = FALSE]
          ELSE IF topicScreen.closure.user # JNull
          THEN [topicScreen EXCEPT !.topic = topicData, !.topicData = topicData,
                                   !.loadTopic = "progress"]
          ELSE [topicScreen EXCEPT !.topic = topicData, !.topicData = topicData,
                                   !.loadTopic = "done", !.loading = FALSE]
    /\ UNCHANGED <<lib, authSession, auth, explore, quiz, chaptersScreen, home, db>>

\* loadTopic: the topic_progress query resolves (or fails); for a PDF that
\* is not completed loadTopic calls markTopicComplete and awaits it.
loadTopic_progress(progressData, fault) ==
    LET isCompleted == Prop(progressData, "completed") = JBool(TRUE)
        seen == [topicScreen EXCEPT !.completed = isCompleted,
                                    !.hasMarkedComplete = isCompleted,
                                    !.found = IF isCompleted THEN "completed" ELSE "open"]
        marked == markTopicComplete_called(seen, topicScreen.closure.user,
                                           topicScreen.closure.topic)
    IN  /\ topicScreen.open
        /\ topicScreen.loadTopic = "progress"
        /\ topicScreen' =
              IF fault
              THEN [topicScreen EXCEPT !.loadTopic = "done", !.found = "failed",
                                       !.loading = FALSE]
              ELSE IF Prop(topicScreen.topicData, "type") = JStr("pdf") /\ ~isCompleted
              THEN IF marked.markTopicComplete = "upsert"
                   THEN [marked EXCEPT !.loadTopic = "markTopicComplete"]
                   ELSE [marked EXCEPT !.loadTopic = "done", !.loading = FALSE]
              ELSE [seen EXCEPT !.loadTopic = "done", !.loading = FALSE]
        /\ UNCHANGED <<lib, authSession, auth, explore, quiz, chaptersScreen, home, db>>

\* The player of a video topic posts a video_progress message.
handleWebViewMessage(data) ==
    LET progress == (data.currentTime * 100) \div data.duration   \* in hundredths
        shown == [topicScreen EXCEPT !.videoProgress = progress]
    IN  /\ topicScreen.open /\ ~topicScreen.loading
        /\ Prop(topicScreen.topic, "type") = JStr("video")
        /\ Prop(topicScreen.topic, "file_url") # JNull
        /\ topicScreen.markTopicComplete = "idle"
        /\ topicScreen.upserts < MaxUpserts
        /\ topicScreen' =
              IF data.duration > 0
              THEN IF progress >= 95 /\ ~topicScreen.hasMarkedComplete
                   THEN markTopicComplete_called(shown, auth.user, topicScreen.topic)
                   ELSE shown
              ELSE topicScreen
        /\ UNCHANGED <<lib, authSession, auth, explore, quiz, chaptersScreen, home, db>>

\* The upsert of markTopicComplete resolves (its error, if any, is not
\* looked at) or rejects; a loadTopic that awaited it goes on to its finally.
markTopicComplete_then(outcome) ==
    LET x == IF outcome = "rejects"
             THEN [topicScreen EXCEPT !.hasMarkedComplete = FALSE]
             ELSE [topicScreen EXCEPT !.completed = TRUE]
        y == [x EXCEPT !.markTopicComplete = "idle", !.row = JNull]
    IN  /\ topicScreen.open
        /\ topicScreen.markTopicComplete = "upsert"
        /\ topicScreen' =
              IF topicScreen.loadTopic = "markTopicComplete"
              THEN [y EXCEPT !.loadTopic = "done", !.loading = FALSE]
              ELSE y
        /\ db' = IF outcome = "resolves"
                  THEN [db EXCEPT !.topic_progress = upsertRow(@, topicScreen.row)]
                  ELSE db
        /\ UNCHANGED <<lib, authSession, auth, explore, quiz, chaptersScreen, home>>

\* handleDownload of the topic screen, up to its await: the button is
\* disabled while downloading and for a topic without a file.
handleDownload ==
    /\ topicScreen.open /\ ~topicScreen.loading
    /\ ~topicScreen.downloading
    /\ Prop(topicScreen.topic, "file_url") # JNull
    /\ topicScreen' = [topicScreen EXCEPT !.downloading = TRUE]
    /\ UNCHANGED <<lib, authSession, auth, explore, quiz, chaptersScreen, home, db>>

\* downloadFile resolves or rejects: finally { setDownloading(false) }
handleDownload_then ==
    /\ topicScreen.open
    /\ topicScreen.downloading
    /\ topicScreen' = [topicScreen EXCEPT !.downloading = FALSE]
    /\ UNCHANGED <<lib, authSession, auth, explore, quiz, chaptersScreen, home, db>>

(***************************************************************************)
(* calculateSubjectProgress of the enrolled-subjects screen                *)
(* (src/app/(tabs)/explore.tsx, lines 327-360) and the progress bar of     *)
(* SubjectCard (src/unnamed/part_002, lines 508-515).                      *)
(***************************************************************************)
\* The topics of the backend and the subject each belongs to (through its
\* chapter and term).
TopicIds == {"a1", "a2", "b1"}
SubjectOf(topicId) == IF topicId = "b1" THEN "s2" ELSE "s1"

\* topics.duration: minutes, or null.
Durations == {JNull, JNum(10), JNum(20)}

\* topic.duration || 0
DurationOrZero(duration) == IF duration.t = "num" THEN duration.n ELSE 0

\* array.reduce((sum, x) => sum + x, 0) over the durations of a set of topics
RECURSIVE SumDurations(_, _)
SumDurations(topicIds, duration) ==
    IF topicIds = {} THEN 0
    ELSE LET t == CHOOSE x \in topicIds : TRUE
         IN  DurationOrZero(duration[t]) + SumDurations(topicIds \ {t}, duration)

\* A number that is the quotient of two integers.
Quotient(num, den) == [num |-> num, den |-> den]
Zero == Quotient(0, 1)

\* The rows the second query selects: from('topic_progress')
\* .eq('student_id', studentId).eq('completed', true)
completedTopics(rows, studentId) ==
    {r.topic_id : r \in {x \in rows : x.student_id = studentId /\ x.completed}}

calculateSubjectProgress(duration, rows, studentId, subjectId, faults) ==
    LET topics == {t \in TopicIds : SubjectOf(t) = subjectId}
        totalDuration == SumDurations(topics, duration)
        completedDuration == SumDurations(completedTopics(rows, studentId), duration)
    IN  IF "topics" \in faults THEN Zero
        ELSE IF totalDuration = 0 THEN Zero
        ELSE IF "topic_progress" \in faults THEN Zero
        ELSE Quotient(completedDuration, totalDuration)

\* The enrolled-subjects screen over a backend with the given topic
\* durations; nothing computed yet.
HomeScreen(duration) ==
    [open |-> TRUE, duration |-> duration, call |-> [studentId |-> "", subjectId |-> ""],
     progress |-> Zero, progressText |-> JNum(0)]

\* loadEnrolledSubjects computes the progress of one enrolled subject, and
\* SubjectCard shows Math.round(progress * 100) percent.
loadEnrolledSubjects(studentId, subjectId, faults) ==
    LET progress == calculateSubjectProgress(home.duration, db.topic_progress,
                                             studentId, subjectId, faults)
    IN  /\ home.open
        /\ home' = [home EXCEPT !.call = [studentId |-> studentId, subjectId |-> subjectId],
                                !.progress = progress,
                                !.progressText = Mathround(progress.num * 100, progress.den)]
        /\ UNCHANGED <<lib, authSession, auth, explore, quiz, topicScreen, chaptersScreen, db>>

(***************************************************************************)
(* SubjectChaptersScreen (src/unnamed/part_000, lines 383-571).            *)
(***************************************************************************)
\* What the terms query can resolve with (term ids in created_at order), the
\* route's lastVisitedTermId ('' when there is none), and what the chapters
\* query of a term can resolve with.
TermsData == {<<>>, <<"T1">>, <<"T1", "T2">>}
LastVisited == {"", "T2"}
ChaptersData == {<<>>, <<"c1">>, <<"c1", "c2">>}
ChapterLoads == 1..MaxLoads

NoChapterLoad == [pc |-> "idle", term |-> "", chapters |-> <<>>]

\* The state after the first render: the effect of [id] has called loadTerms;
\* selectedTermId is null, so the effect of [selectedTermId] has called nothing.
SubjectChaptersScreen(lastVisitedTermId) ==
    [open |-> TRUE, lastVisitedTermId |-> lastVisitedTermId,
     terms |-> <<>>, selectedTermId |-> JNull, chapters |-> <<>>,
     topicProgress |-> "none", loading |-> TRUE, loadTerms |-> "terms",
     loads |-> [l \in ChapterLoads |-> NoChapterLoad]]

\* setSelectedTermId(termId): when the state changes, the effect of
\* [selectedTermId] calls loadChaptersAndTopics, which suspends at its query.
setSelectedTermId(x, termId) ==
    LET free == {l \in ChapterLoads : x.loads[l].pc = "idle"}
        l == CHOOSE m \in free : \A n \in free : m <= n
    IN  IF x.selectedTermId = JStr(termId) THEN x
        ELSE [x EXCEPT !.selectedTermId = JStr(termId),
                       !.loads[l] = [pc |-> "chapters", term |-> termId, chapters |-> <<>>]]

\* (lastVisitedTermId as string) || data?.[0]?.id
termIdToSelect(lastVisitedTermId, data) ==
    IF lastVisitedTermId # "" THEN lastVisitedTermId
    ELSE IF Len(data) > 0 THEN data[1] ELSE ""

\* loadTerms: the terms query resolves (or fails).
loadTerms_then(data, fault) ==
    LET loaded == [chaptersScreen EXCEPT !.loadTerms = "done", !.terms = data]
        termId == termIdToSelect(chaptersScreen.lastVisitedTermId, data)
    IN  /\ chaptersScreen.open
        /\ chaptersScreen.loadTerms = "terms"
        /\ chaptersScreen' =
              IF fault THEN [chaptersScreen EXCEPT !.loadTerms = "done"]
              ELSE IF termId # "" THEN setSelectedTermId(loaded, termId)
              ELSE loaded
        /\ UNCHANGED <<lib, authSession, auth, explore, quiz, topicScreen, home, db>>

\* finally { setLoading(false) }
loadChaptersAndTopics_finally(x, l) ==
    [x EXCEPT !.loading = FALSE, !.loads[l] = NoChapterLoad]

\* loadChaptersAndTopics: the await the call is suspended at resolves (or
\* fails): the chapters query, the topics queries, the topic_progress query.
loadChaptersAndTopics_then(l, data, fault) ==
    LET c == chaptersScreen.loads[l]
    IN  /\ chaptersScreen.open
        /\ c.pc # "idle"
        /\ chaptersScreen' =
              CASE c.pc = "chapters" ->
                     IF fault THEN loadChaptersAndTopics_finally(chaptersScreen, l)
                     ELSE [chaptersScreen EXCEPT !.loads[l].pc = "topics",
                                                 !.loads[l].chapters = data]
                [] c.pc = "topics" ->
                     IF fault THEN loadChaptersAndTopics_finally(chaptersScreen, l)
                     ELSE IF auth.user # JNull
                     THEN [chaptersScreen EXCEPT !.chapters = c.chapters,
                                                 !.loads[l].pc = "topic_progress"]
                     ELSE loadChaptersAndTopics_finally(
                              [chaptersScreen EXCEPT !.chapters = c.chapters], l)
                [] OTHER ->
                     IF fault THEN loadChaptersAndTopics_finally(chaptersScreen, l)
                     ELSE loadChaptersAndTopics_finally(
                              [chaptersScreen EXCEPT !.topicProgress = c.term], l)
        /\ UNCHANGED <<lib, authSession, auth, explore, quiz, topicScreen, home, db>>

\* A term chip is pressed (the chips are rendered once loading is false).
TermChipPressed(termId) ==
    /\ chaptersScreen.open /\ ~chaptersScreen.loading
    /\ \E i \in DOMAIN chaptersScreen.terms : chaptersScreen.terms[i] = termId
    /\ \E l \in ChapterLoads : chaptersScreen.loads[l].pc = "idle"
    /\ chaptersScreen' = setSelectedTermId(chaptersScreen, termId)
    /\ UNCHANGED <<lib, authSession, auth, explore, quiz, topicScreen, home, db>>

(***************************************************************************)
(* The specifications: calls made one after the other, calls overlapping.  *)
(***************************************************************************)
InitLib ==
    /\ storage = [k \in StorageKeys |-> NoItem]
    /\ dirExists = FALSE
    /\ files = [u \in AllUris |-> NoFile]
    /\ now = 0
    /\ last = [op |-> "none"]
    /\ fresh = [k \in Keys |-> None]
    /\ gone = [k \in Keys |-> ""]
    /\ dl = [id \in Ids |-> ""]
    /\ downloads = {}
    /\ calls = [s \in Slots |-> Idle]

\* The app is started, signed out, no screen is open.
InitApp ==
    /\ authSession = JNull
    /\ auth = AuthProvider
    /\ explore = NoScreen
    /\ quiz = NoScreen
    /\ topicScreen = NoScreen
    /\ chaptersScreen = NoScreen
    /\ home = NoScreen
    /\ db = NoRows

Init == InitLib /\ InitApp

\* The quiz screen has been opened, by a signed-in student or signed out.
InitQuiz ==
    /\ InitLib
    /\ \/ authSession = Session("u1") /\ auth = SignedIn("u1")
       \/ authSession = JNull /\ auth = [AuthProvider EXCEPT !.loading = FALSE,
                                                              !.getSession = "resolved"]
    /\ explore = NoScreen
    /\ quiz = QuizScreen
    /\ topicScreen = NoScreen
    /\ chaptersScreen = NoScreen
    /\ home = NoScreen
    /\ db = NoRows

\* The topic screen has been opened, by a signed-in student or signed out.
InitTopic ==
    /\ InitLib
    /\ \/ authSession = Session("u1") /\ auth = SignedIn("u1")
       \/ authSession = JNull /\ auth = [AuthProvider EXCEPT !.loading = FALSE,
                                                              !.getSession = "resolved"]
    /\ explore = NoScreen
    /\ quiz = NoScreen
    /\ topicScreen = TopicScreen(auth.user)
    /\ chaptersScreen = NoScreen
    /\ home = NoScreen
    /\ db = NoRows

\* The enrolled-subjects screen is open over some topics table and some
\* topic_progress rows of u1 and u2.
InitHome ==
    /\ InitLib
    /\ authSession = Session("u1")
    /\ auth = SignedIn("u1")
    /\ explore = NoScreen
    /\ quiz = NoScreen
    /\ topicScreen = NoScreen
    /\ chaptersScreen = NoScreen
    /\ \E duration \in [TopicIds -> Durations] : home = HomeScreen(duration)
    /\ \E done \in SUBSET (Users \X {"a1", "b1"}) :
          db = [NoRows EXCEPT !.topic_progress =
                  {[student_id |-> d[1], topic_id |-> d[2], completed |-> TRUE] : d \in done}]

\* The subject chapters screen has been opened, by a signed-in student or
\* signed out, with or without a last visited term in the route.
InitChapters ==
    /\ InitLib
    /\ \/ authSession = Session("u1") /\ auth = SignedIn("u1")
       \/ authSession = JNull /\ auth = [AuthProvider EXCEPT !.loading = FALSE,
                                                              !.getSession = "resolved"]
    /\ explore = NoScreen
    /\ quiz = NoScreen
    /\ topicScreen = NoScreen
    /\ \E lastVisitedTermId \in LastVisited :
          chaptersScreen = SubjectChaptersScreen(lastVisitedTermId)
    /\ home = NoScreen
    /\ db = NoRows

\* The Explore screen is open for a signed-in student.
InitExplore ==
    /\ InitLib
    /\ authSession = Session("u1")
    /\ auth = SignedIn("u1")
    /\ explore = ExploreScreen
    /\ quiz = NoScreen
    /\ topicScreen = NoScreen
    /\ chaptersScreen = NoScreen
    /\ home = NoScreen
    /\ db = NoRows

NextCache ==
    \/ \E key \in Keys, data \in Values, faults \in FaultSets({"setItem"}) :
          set(key, data, faults)
    \/ \E key \in Keys, faults \in FaultSets({"getItem", "removeItem"}) :
          get(key, faults)
    \/ \E key \in Keys, faults \in FaultSets({"removeItem"}) :
          remove(key, faults)
    \/ \E faults \in FaultSets({"getAllKeys", "multiRemove"}) :
          clear(faults)
    \/ \E key \in Keys, s \in Malformed : ExternalWrite(key, s)
    \/ \E t \in Instants(0) \cup Instants(CACHE_EXPIRY) : Tick(t)

\* The cache and the manifest side by side in AsyncStorage.
NextStorage ==
    \/ \E key \in Keys, data \in Values, faults \in FaultSets({"setItem"}) :
          set(key, data, faults)
    \/ \E key \in Keys, faults \in FaultSets({"removeItem"}) :
          remove(key, faults)
    \/ \E faults \in FaultSets({"getAllKeys", "multiRemove"}) :
          clear(faults)
    \/ \E item \in Catalog :
          download(item.id, item.name, item.url, item.type, {})

NextDownloads ==
    \/ \E item \in Catalog,
          faults \in FaultSets({"getInfoAsync", "makeDirectoryAsync", "downloadAsync",
                                "getAllRecords", "saveAllRecords"}) :
          download(item.id, item.name, item.url, item.type, faults)
    \/ \E id \in Ids, faults \in FaultSets({"getDownload", "getInfoAsync"}) :
          isDownloaded(id, faults)
    \/ \E id \in Ids, faults \in FaultSets({"getDownload", "deleteAsync", "getAllRecords",
                                            "saveAllRecords"}) :
          deleteDownload(id, faults)
    \/ \E faults \in FaultSets({"deleteAsync", "removeItem", "getInfoAsync",
                                "makeDirectoryAsync"}) :
          clearAll(faults)
    \/ \E uri \in AllUris : ExternalRemove(uri)
    \/ \E t \in Instants(0) : Tick(t)

\* The Downloads screen over the manifest.
NextScreen ==
    \/ \E item \in Catalog :
          download(item.id, item.name, item.url, item.type, {})
    \/ \E id \in Ids : deleteDownload(id, {})
    \/ \E faults \in FaultSets({"getInfoAsync", "readDirectoryAsync"}) :
          loadDownloads(faults)
    \/ \E uri \in AllUris, faults \in FaultSets({"deleteAsync"}) :
          handleDelete(uri, faults)
    \/ \E uri \in AllUris : ExternalRemove(uri)

\* One catalogue item per id.
OnePerId == {item \in Catalog : item.type = "pdf"}

\* The manifest operations overlapping, their I/O failing or not.
NextAsync ==
    \/ \E s \in Slots : StartInit(s)
    \/ \E s \in Slots, item \in OnePerId : StartDownload(s, item)
    \/ \E s \in Slots, id \in Ids : StartDeleteDownload(s, id)
    \/ \E s \in Slots : StartClearAll(s)
    \/ \E s \in Slots, fault \in BOOLEAN : Step(s, fault)

\* Downloads and deletions overlapping, all of their I/O succeeding.
NextOverlap ==
    \/ \E s \in Slots, item \in Catalog : StartDownload(s, item)
    \/ \E s \in Slots, id \in Ids : StartDeleteDownload(s, id)
    \/ \E s \in Slots : Step(s, FALSE)

\* Reads and writes of the cache overlapping, on the key they contend for.
HotKeys == {"topics_abc"}

NextAsyncCache ==
    \/ \E s \in Slots, key \in HotKeys : StartGet(s, key)
    \/ \E s \in Slots, key \in HotKeys, data \in Values : StartSet(s, key, data)
    \/ \E s \in Slots, fault \in BOOLEAN : Step(s, fault)
    \/ \E t \in Instants(0) \cup Instants(CACHE_EXPIRY) : Tick(t)

\* The auth provider: the session changing while profiles load.
NextAuth ==
    \/ getSession_then
    \/ \E session \in Sessions : onAuthStateChange(session)
    \/ \E userId \in Users, result \in QueryResults : loadStudentProfile_then(userId, result)

\* The Explore screen: Enroll buttons pressed while enrollments are in flight.
NextExplore ==
    \/ \E e \in Enrolls, subject \in Subjects : handleEnroll(e, subject)
    \/ \E e \in Enrolls, fault \in BOOLEAN : handleEnroll_then(e, fault)

\* The quiz screen: loading, answering, moving between questions, submitting.
NextQuiz ==
    \/ \E data \in QuestionsData, fault \in BOOLEAN : loadQuiz_questions(data, fault)
    \/ \E fault \in BOOLEAN : loadQuiz_options(fault)
    \/ \E i \in DOMAIN QuestionIds, letter \in {"a", "b"} :
          handleSelectOption(Option(QuestionIds[i], letter).id)
    \/ handleNext
    \/ handlePrevious
    \/ handleSubmit
    \/ \E fault \in BOOLEAN : handleSubmit_then(fault)

\* The topic screen: loading, the video playing, marking the topic complete.
NextTopic ==
    \/ \E topicData \in Topics, fault \in BOOLEAN : loadTopic_topic(topicData, fault)
    \/ \E progressData \in ProgressData, fault \in BOOLEAN :
          loadTopic_progress(progressData, fault)
    \/ \E data \in VideoMessages : handleWebViewMessage(data)
    \/ \E outcome \in {"resolves", "error", "rejects"} : markTopicComplete_then(outcome)
    \/ handleDownload
    \/ handleDownload_then

\* The enrolled-subjects screen computing the progress of a subject.
NextHome ==
    \E studentId \in Users, subjectId \in Subjects,
       faults \in FaultSets({"topics", "topic_progress"}) :
          loadEnrolledSubjects(studentId, subjectId, faults)

\* The subject chapters screen: its queries resolving, term chips pressed.
QueriesSettle ==
    \/ \E data \in TermsData, fault \in BOOLEAN : loadTerms_then(data, fault)
    \/ \E l \in ChapterLoads, data \in ChaptersData, fault \in BOOLEAN :
          loadChaptersAndTopics_then(l, data, fault)

NextChapters ==
    \/ QueriesSettle
    \/ \E termId \in {"T1", "T2"} : TermChipPressed(termId)

SpecCache == Init /\ [][NextCache]_vars

SpecDownloads == Init /\ [][NextDownloads]_vars

SpecStorage == Init /\ [][NextStorage]_vars

SpecScreen == Init /\ [][NextScreen]_vars

SpecAsync == Init /\ [][NextAsync]_vars

SpecOverlap == Init /\ [][NextOverlap]_vars

SpecAsyncCache == Init /\ [][NextAsyncCache]_vars

SpecAuth == Init /\ [][NextAuth]_vars

SpecExplore == InitExplore /\ [][NextExplore]_vars

SpecQuiz == InitQuiz /\ [][NextQuiz]_vars

SpecTopic == InitTopic /\ [][NextTopic]_vars

SpecHome == InitHome /\ [][NextHome]_vars

SpecChapters == InitChapters /\ [][NextChapters]_vars

\* Every query that is awaited settles: it resolves or it fails.
SpecChaptersLive == SpecChapters /\ WF_vars(QueriesSettle)

(***************************************************************************)
(* What the claims read off a state.                                       *)
(***************************************************************************)
\* v is a JSON value: null, a boolean, a finite number, a string, or an array
\* or object of JSON values.
RECURSIVE JSONSerializable(_)
JSONSerializable(v) ==
    CASE v.t \in {"null", "bool", "num", "str"} -> TRUE
      [] v.t = "arr" -> \A i \in DOMAIN v.a : JSONSerializable(v.a[i])
      [] v.t = "obj" -> \A f \in DOMAIN v.o : JSONSerializable(v.o[f])
      [] OTHER -> FALSE

\* The positions of the manifest's records of `id`.
RecordsOf(id) == {i \in DOMAIN Manifest : Manifest[i].o.id = JStr(id)}

\* The files of the downloads directory that are named after `id`.
FilesOf(id) ==
    {u \in DOMAIN files :
        /\ files[u] # NoFile
        /\ u \in {DOWNLOADS_DIR \o id \o ".mp4", DOWNLOADS_DIR \o id \o ".pdf"}}

\* Some record of `id` in the manifest points to a file that is not there.
Drifted(id) ==
    \E i \in RecordsOf(id) :
        ~dirExists \/ files[Manifest[i].o.localUri.s] = NoFile

\* Some record of `id` in the manifest points to a file that is there.
Backed(id) ==
    \E i \in RecordsOf(id) :
        dirExists /\ files[Manifest[i].o.localUri.s] # NoFile

(***************************************************************************)
(* C1. Cache round trip: when cache.set(k, v) of a JSON-serializable v hit *)
(* storage, nothing wrote k since, and cache.get(k) then reads storage at  *)
(* most CACHE_EXPIRY after the set (the boundary included), get returns v. *)
(***************************************************************************)
C1_RoundTrip ==
    (last.op = "get" /\ last.ok) =>
        LET f == fresh[last.key]
        IN  (f # None /\ JSONSerializable(f.data) /\ last.at - f.at <= CACHE_EXPIRY)
                => last.res = f.data

\* A get exactly CACHE_EXPIRY after the set returned the array that was set.
C1_Witness ==
    /\ last.op = "get" /\ last.ok
    /\ fresh[last.key] # None
    /\ fresh[last.key].data.t = "arr"
    /\ last.at - fresh[last.key].at = CACHE_EXPIRY
    /\ last.res = fresh[last.key].data

C3_DownloadedAfterDownload ==
    (last.op = "isDownloaded" /\ last.ok /\ dl[last.id] \in {"ok", "path"})
        => last.res = JBool(TRUE)

C5_SecondDownloadReplaces ==
    (last.op = "download" /\ last.ok /\ last.again) =>
        /\ Cardinality(RecordsOf(last.id)) = 1
        /\ \A i \in RecordsOf(last.id) :
              Manifest[i].o = [id |-> JStr(last.id), name |-> JStr(last.name),
                               type |-> JStr(last.type), url |-> JStr(last.url),
                               localUri |-> last.res, downloadedAt |-> JNum(last.at)]

\* The second download came later, with another name and url than the first.
C5_Witness ==
    /\ last.op = "download" /\ last.ok /\ last.again
    /\ last.differs
    /\ Len(Manifest) = 2

C7_PathOnlyOnSuccess ==
    last.op = "download" =>
        /\ last.res # Threw
        /\ ~last.ok => last.res = JNull

C10_OneFilePerId ==
    (last.op = "download" /\ last.ok /\ last.again) => FilesOf(last.id) = {last.res.s}

C12_ManifestOpsNeverThrow ==
    last.op \in {"download", "isDownloaded", "deleteDownload", "clearAll"} =>
        /\ last.res # Threw
        /\ ~last.ok => last.res \in {JNull, Undefined, JBool(FALSE), JArr(<<>>)}

(***************************************************************************)
(* C13. Under any storage failure and for any malformed stored value,      *)
(* cache.set, cache.remove and cache.clear return without raising, and     *)
(* cache.get returns no value (null or undefined) without raising.         *)
(***************************************************************************)
C13_CacheNeverThrows ==
    last.op \in {"set", "get", "remove", "clear"} =>
        /\ last.res # Threw
        /\ (last.op = "get" /\ (~last.ok \/ last.malformed)) => last.res \in {JNull, Undefined}

(***************************************************************************)
(* C14. After the Downloads screen's handleDelete has removed an item,     *)
(* getDownload of the item's id returns null, as after deleteDownload(id). *)
(***************************************************************************)
C14_HandleDeleteRemovesRecord ==
    (last.op = "handleDelete" /\ last.ok) => getDownload(storage, last.id, FALSE) = JNull

(***************************************************************************)
(* C15. init() is idempotent: no step of an init call, alone or overlapping *)
(* other calls, changes the directory's files or the manifest or raises,   *)
(* and when an init returns with its I/O succeeded the directory exists.   *)
(***************************************************************************)
C15_InitIdempotent ==
    [][\A s \in Slots :
          (calls[s].op = "init" /\ Suspended(calls[s]) /\ calls'[s] # calls[s]) =>
              /\ files' = files
              /\ storage' = storage
              /\ calls'[s].res # Threw
              /\ (calls'[s].pc = "done" /\ calls'[s].ok) => dirExists']_vars

\* An init that had found no directory created it after an overlapping download
\* had created it, fetched a file and saved its record.
C15_Witness ==
    \E s \in Slots :
        /\ calls[s].op = "init" /\ calls[s].pc = "done" /\ calls[s].ok
        /\ calls[s].overlapped /\ calls[s].note = "raced"
        /\ Manifest # <<>>
        /\ \E u \in AllUris : exists(FS, u)

(***************************************************************************)
(* C16. Manifest uniqueness: in every state reached from the empty         *)
(* manifest by download, deleteDownload and clearAll calls (and init),     *)
(* interleaved at their awaits, with or without failures, the persisted    *)
(* manifest holds at most one record per id.                               *)
(***************************************************************************)
C16_OneRecordPerId ==
    \A id \in Ids : Cardinality(RecordsOf(id)) <= 1

\* Two overlapping downloads of the same id have both returned its path, next
\* to a record of the other id.
C16_Witness ==
    /\ \A s \in Slots :
          /\ calls[s].op = "download" /\ calls[s].pc = "done"
          /\ calls[s].overlapped /\ calls[s].res # JNull
    /\ calls[1].arg.id = calls[2].arg.id
    /\ Cardinality(RecordsOf(calls[1].arg.id)) = 1
    /\ Len(Manifest) = 2

(***************************************************************************)
(* C17. Lost update: two overlapping downloads of different ids can both   *)
(* return a local path with both files in place while the manifest holds   *)
(* the record of only one of them, so that isDownloaded is false for the   *)
(* other id.  Whenever two such downloads have returned, the record of at  *)
(* least one of them (the last writer's) is in the manifest, and           *)
(* isDownloaded is false for an id without a record.                       *)
(***************************************************************************)
BothDownloaded ==
    /\ \A s \in Slots :
          /\ calls[s].op = "download" /\ calls[s].pc = "done"
          /\ calls[s].overlapped /\ calls[s].res # JNull
    /\ calls[1].arg.id # calls[2].arg.id

C17_LastWriterWins ==
    BothDownloaded =>
        /\ \E s \in Slots : \E i \in RecordsOf(calls[s].arg.id) :
              Manifest[i].o.localUri = calls[s].res
        /\ \A s \in Slots :
              RecordsOf(calls[s].arg.id) = {} =>
                  isDownloaded_outcome(calls[s].arg.id, {}).res = JBool(FALSE)

\* Both downloads returned a path, both files exist, one record was lost.
C17_Witness ==
    /\ BothDownloaded
    /\ \A s \in Slots : exists(FS, calls[s].res.s)
    /\ Len(Manifest) = 1
    /\ \E s \in Slots :
          /\ RecordsOf(calls[s].arg.id) = {}
          /\ isDownloaded_outcome(calls[s].arg.id, {}).res = JBool(FALSE)

(***************************************************************************)
(* C18. With no I/O failure and no external deletion, whenever no download *)
(* or deleteDownload call is in progress, the local file of every manifest *)
(* record exists.                                                          *)
(***************************************************************************)
C18_ManifestFilesAgree ==
    (\A s \in Slots : ~Suspended(calls[s])) =>
        \A i \in DOMAIN Manifest : exists(FS, Manifest[i].o.localUri.s)

(***************************************************************************)
(* C19. cache.get purges only expired data: when get(k) has read an        *)
(* expired entry and a cache.set(k, v) has written before get's removal    *)
(* step, the removal step leaves the entry of v in storage.                *)
(***************************************************************************)
C19_GetPurgesOnlyExpired ==
    [][\A s \in Slots :
          LET k == CACHE_PREFIX \o calls[s].arg.key
          IN  ( /\ calls[s].op = "get" /\ calls[s].pc = "removeItem"
                /\ calls[s].note = "overwritten"
                /\ calls'[s].pc = "done"
                /\ storage[k] # NoItem /\ ~Expired(JSONparse(storage[k])) )
              => storage'[k] = storage[k]]_vars

(***************************************************************************)
(* C20. A deleteDownload(id) whose file removal fails leaves the manifest  *)
(* as it was before the call, getDownload(id) still returns the record,    *)
(* the file is untouched, and no error reaches the caller.                 *)
(***************************************************************************)
C20_FileFailureKeepsManifest ==
    [][(last'.op = "deleteDownload" /\ last'.fileFailed) =>
          /\ storage' = storage
          /\ files' = files
          /\ getDownload(storage', last'.id, FALSE) # JNull
          /\ getDownload(storage', last'.id, FALSE) = getDownload(storage, last'.id, FALSE)
          /\ last'.res # Threw]_vars

\* The file removal of a deleteDownload failed with two records in the manifest.
C20_Witness ==
    /\ last.op = "deleteDownload" /\ last.fileFailed
    /\ Len(Manifest) = 2
    /\ Live(last.id)

C22_GetIsLazyAndLocal ==
    [][\A s \in Slots :
          ( /\ calls[s].op = "get" /\ Suspended(calls[s])
            /\ calls'[s].pc # calls[s].pc )
          => \A sk \in DOMAIN storage :
                 storage'[sk] # storage[sk] =>
                     /\ sk = CacheKey(calls[s].arg.key)
                     /\ storage'[sk] = NoItem
                     /\ Parses(storage[sk])
                     /\ Expired(JSONparse(storage[sk]))]_vars

(***************************************************************************)
(* C23. A download(id, ...) or deleteDownload(id) that overlaps no other   *)
(* manifest operation leaves the record of every other id as it was, and a *)
(* deleteDownload(id) of an id without a record changes neither the        *)
(* manifest nor any file.                                                  *)
(***************************************************************************)
C23_OtherRecordsKept ==
    [][ /\ last'.op \in {"download", "deleteDownload"} =>
              \A id \in Ids \ {last'.id} :
                  getDownload(storage', id, FALSE) = getDownload(storage, id, FALSE)
        /\ (last'.op = "deleteDownload" /\ getDownload(storage, last'.id, FALSE) = JNull) =>
              /\ storage' = storage
              /\ files' = files
              /\ dirExists' = dirExists
      ]_vars

(***************************************************************************)
(* C24. In every state of AuthProvider, student is non-null only if user   *)
(* is non-null and student.id equals user.id; after a change to signed-out *)
(* student stays null, also when a loadStudentProfile that was called      *)
(* before the sign-out resolves after it.                                  *)
(***************************************************************************)
C24_StudentBelongsToUser ==
    auth.student # JNull =>
        /\ auth.user # JNull
        /\ Prop(auth.student, "id") = Prop(auth.user, "id")

(***************************************************************************)
(* C25. While a handleEnroll call for subject s is in flight, enrollingId  *)
(* equals s, so that the Enroll button of s is disabled and no second      *)
(* handleEnroll for s is in flight, also when enrollments of other         *)
(* subjects start or finish in the meantime.                               *)
(***************************************************************************)
C25_EnrollingIdGuards ==
    \A e \in Enrolls :
        explore.enrolls[e].pc # "idle" =>
            /\ explore.enrollingId = JStr(explore.enrolls[e].subject)
            /\ \A f \in Enrolls \ {e} :
                  explore.enrolls[f].pc # "idle" =>
                      explore.enrolls[f].subject # explore.enrolls[e].subject

\* Every loaded question has a selected option.
AllAnswered == \A i \in DOMAIN quiz.questions : quiz.questions[i].id \in DOMAIN quiz.answers

(***************************************************************************)
(* C26. Quiz submission guard: handleSubmit issues its insert into         *)
(* student_progress only when every loaded question has a selected option, *)
(* and the quiz_score of every row it inserts is an integer from 0 to 100. *)
(***************************************************************************)
C26_SubmitGuard ==
    /\ quiz.handleSubmit = "insert" =>
          /\ AllAnswered
          /\ Prop(quiz.row, "quiz_score").t = "num"
          /\ Prop(quiz.row, "quiz_score").n \in 0..100
    /\ \A row \in BagToSet(db.student_progress) :
          /\ AllAnswered
          /\ Prop(row, "quiz_score").t = "num"
          /\ Prop(row, "quiz_score").n \in 0..100

\* A quiz of three questions was submitted with two correct answers: the
\* row holds the rounded score 67.
C26_Witness ==
    /\ Len(quiz.questions) = 3
    /\ \E row \in BagToSet(db.student_progress) : Prop(row, "quiz_score") = JNum(67)

(***************************************************************************)
(* C27. In every state of the quiz screen with loading = false,            *)
(* 0 <= currentIndex <= questions.length - 1, so that the question the     *)
(* screen renders exists, after any handleNext and handlePrevious and for  *)
(* every outcome of loadQuiz.                                              *)
(***************************************************************************)
C27_CurrentQuestionExists ==
    (quiz.open /\ ~quiz.loading) =>
        /\ 0 <= quiz.currentIndex
        /\ quiz.currentIndex <= Len(quiz.questions) - 1

(***************************************************************************)
(* C28. When a signed-in user opens a PDF topic that has no completed      *)
(* progress row and the queries of loadTopic succeed, loadTopic has issued *)
(* one upsert into topic_progress (completed = true, that user, that       *)
(* topic) and the screen's completed flag is true when the load is done.   *)
(***************************************************************************)
C28_PdfMarkedOnOpen ==
    ( /\ topicScreen.open /\ topicScreen.loadTopic = "done"
      /\ topicScreen.closure.user # JNull
      /\ topicScreen.found = "open"
      /\ Prop(topicScreen.topic, "type") = JStr("pdf") )
    => /\ topicScreen.upserts = 1
       /\ topicScreen.completed

(***************************************************************************)
(* C29. calculateSubjectProgress(studentId, subjectId) returns a fraction  *)
(* in [0, 1]: the completed duration never exceeds the subject's total     *)
(* duration, whatever completed topic_progress rows the student has across *)
(* all subjects.                                                           *)
(***************************************************************************)
C29_ProgressIsAFraction ==
    home.open =>
        /\ 0 <= home.progress.num
        /\ home.progress.num <= home.progress.den

(***************************************************************************)
(* C30. On the subject chapters screen, after mount the loading flag       *)
(* eventually becomes false, for every outcome of the terms query, a       *)
(* subject without terms and a failed terms query included.                *)
(***************************************************************************)
C30_LoadingEnds == <>(~chaptersScreen.loading)

====
